---- MODULE Spec2Model ----
(***************************************************************************)
(* Model of the migration analyzers odoo-mig-analyzer.py and               *)
(* oca-mig-analyzer.py: catalogue parsing (parse_csv), the per-repository  *)
(* per-version walk (analyze_repos), report generation and process exit.   *)
(*                                                                         *)
(* Text is modelled as a sequence of one-character strings, a CSV row as a *)
(* sequence of fields, a version argument "14.0" as the pair <<14, 0>>,    *)
(* and a directory tree as the set of the directory paths it contains      *)
(* (a path is a sequence of names relative to repo_dir).                   *)
(***************************************************************************)
EXTENDS Integers, Sequences, FiniteSets, TLC

VARIABLES
    variant,        \* which script runs: "odoo" or "oca"
    args,           \* parse_arguments(): start, end, save_migrations, dry_run
    rows,           \* the rows csv.reader yields for args.file
    pc,             \* position of the process in main()
    line_num,       \* parse_csv: number of rows consumed so far
    repos_data,     \* parse_csv: ordered mapping repo -> list of (module, url, line)
    csv_errors,     \* list of (line, row)
    branches,       \* analyze_repos: list of version labels
    resumen,        \* analyze_repos: per repository (in repos_data order) the four buckets
    ri,             \* analyze_repos: index of the repository being walked
    bi,             \* analyze_repos: index of the branch being processed
    mi,             \* analyze_repos: index of the module entry last classified
    tree,           \* content of repo_dir for the current (repo, branch)
    no_encontrados, \* result of log_repo_modules for the current (repo, branch)
    probes,         \* calls of repo_exists so far: (repository, branch, answer)
    cloned,         \* calls of ensure_repo_cloned so far: (repository, branch)
    captured,       \* calls of save_migrations that copied a directory: (repository, branch, module)
    reports,        \* TRUE once generate_txt_reports and generate_csv_reports ran
    interrupted,    \* TRUE once KeyboardInterrupt reached the handler of __main__
    exit_status,    \* process exit status, -1 while running
    files,          \* report file -> "untouched", "partial" (opened for writing) or "complete"
    runs_left,      \* further runs the user will make against the same snapshot
    seen,           \* while a further run is pending: the trees read, (repository, branch, tree)
    first           \* in a further run: <<resumen, probes and seen of the first run>>

vars == <<variant, args, rows, pc, line_num, repos_data, csv_errors, branches,
          resumen, ri, bi, mi, tree, no_encontrados, probes, cloned, captured,
          reports, interrupted, exit_status, files, runs_left, seen, first>>

(***************************************************************************)
(* Bounds                                                                  *)
(***************************************************************************)
\* largest major version of the command line; the smallest is 14
MaxMajor == 15
\* largest number of catalogue rows in the parser specification
MaxRows == 2

Majors == 14..MaxMajor

(***************************************************************************)
(* Text helpers                                                            *)
(***************************************************************************)
Spaces == {" "}

\* str.lstrip(chars)
LStrip(s, cs) ==
    LET strip[t \in Seq(STRING)] ==
            IF t # <<>> /\ Head(t) \in cs THEN strip[Tail(t)] ELSE t
    IN strip[s]

\* str.rstrip(chars)
RStrip(s, cs) ==
    LET strip[t \in Seq(STRING)] ==
            IF t # <<>> /\ t[Len(t)] \in cs THEN strip[SubSeq(t, 1, Len(t) - 1)] ELSE t
    IN strip[s]

\* str.strip(chars)
Strip(s, cs) == RStrip(LStrip(s, cs), cs)

\* str.find(c) + 1: index of the first c in s, 0 when there is none
Find(s, c) ==
    IF \E i \in 1..Len(s) : s[i] = c
    THEN CHOOSE i \in 1..Len(s) : s[i] = c /\ \A j \in 1..(i - 1) : s[j] # c
    ELSE 0

\* str.split(c)
Split(s, c) ==
    LET split[t \in Seq(STRING)] ==
            LET i == Find(t, c) IN
            IF i = 0 THEN <<t>>
            ELSE <<SubSeq(t, 1, i - 1)>> \o split[SubSeq(t, i + 1, Len(t))]
    IN split[s]

\* the part of s before the first character of cs (all of s when there is none)
UpTo(s, cs) ==
    LET upto[t \in Seq(STRING)] ==
            IF t = <<>> \/ Head(t) \in cs THEN <<>> ELSE <<Head(t)>> \o upto[Tail(t)]
    IN upto[s]

SchemeChars == {"h", "g", "o", "r", "q", "x", "p", "+", "-", "."}
SchemeFirst == {"h", "g", "o", "r", "q", "x", "p"}

\* urllib.parse.urlparse(url).path
UrlPath(url) ==
    LET i == Find(url, ":")
        hasScheme == /\ i > 1
                     /\ url[1] \in SchemeFirst
                     /\ \A j \in 1..(i - 1) : url[j] \in SchemeChars
        rest == IF hasScheme THEN SubSeq(url, i + 1, Len(url)) ELSE url
        hasNetloc == Len(rest) >= 2 /\ rest[1] = "/" /\ rest[2] = "/"
        afterSlashes == SubSeq(rest, 3, Len(rest))
        netloc == UpTo(afterSlashes, {"/", "?", "#"})
        tail == IF hasNetloc
                THEN SubSeq(afterSlashes, Len(netloc) + 1, Len(afterSlashes))
                ELSE rest
    IN UpTo(tail, {"?", "#"})

\* the value None
None == <<"None">>

\* extract_repo_name: the second segment of the path, None on IndexError
extract_repo_name(url) ==
    LET parts == Split(Strip(UrlPath(url), {"/"}), "/")
    IN IF Len(parts) < 2 THEN None ELSE parts[2]

\* Python truth value of the result of extract_repo_name
Truthy(repo) == repo # None /\ repo # <<>>

(***************************************************************************)
(* parse_csv                                                               *)
(***************************************************************************)
\* position of repo in the ordered mapping d, 0 when it is not a key
KeyIndex(d, repo) ==
    IF \E i \in 1..Len(d) : d[i][1] = repo
    THEN CHOOSE i \in 1..Len(d) : d[i][1] = repo
    ELSE 0

\* repos_data[repo].append(entry) on a defaultdict(list)
DictAppend(d, repo, entry) ==
    LET i == KeyIndex(d, repo) IN
    IF i = 0 THEN Append(d, <<repo, <<entry>>>>)
    ELSE [d EXCEPT ![i] = <<repo, Append(d[i][2], entry)>>]

\* the body of the row loop without the continue after an invalid URL
ParseRowNoContinue(rd, errs, n, row) ==
    IF Len(row) < 2
    THEN [repos_data |-> rd, csv_errors |-> Append(errs, <<n, row>>)]
    ELSE LET module == Strip(row[1], Spaces)
             url == Strip(row[2], Spaces)
             repo == extract_repo_name(url)
         IN [repos_data |-> DictAppend(rd, repo, <<module, url, n>>),
             csv_errors |-> IF Truthy(repo) THEN errs ELSE Append(errs, <<n, row>>)]

\* the body of the row loop of parse_csv for row number n
ParseRow(rd, errs, n, row) ==
    IF Len(row) < 2
    THEN [repos_data |-> rd, csv_errors |-> Append(errs, <<n, row>>)]
    ELSE LET module == Strip(row[1], Spaces)
             url == Strip(row[2], Spaces)
             repo == extract_repo_name(url)
         IN IF ~Truthy(repo)
            THEN [repos_data |-> rd, csv_errors |-> Append(errs, <<n, row>>)]
            ELSE [repos_data |-> DictAppend(rd, repo, <<module, url, n>>),
                  csv_errors |-> errs]

(***************************************************************************)
(* Sample inputs                                                           *)
(***************************************************************************)
M1 == <<"m", "1">>
M2Padded == <<" ", "m", "2", " ">>
Extra == <<"x">>

\* "h://g/o/r", repository r
UrlR == <<"h", ":", "/", "/", "g", "/", "o", "/", "r">>
\* "h://x/p/r/", repository r at another location
UrlR2 == <<"h", ":", "/", "/", "x", "/", "p", "/", "r", "/">>
\* " h://g/o/q ", repository q
UrlQ == <<" ", "h", ":", "/", "/", "g", "/", "o", "/", "q", " ">>
\* "o/r", no scheme and no host, repository r
UrlRel == <<"o", "/", "r">>
\* "h://g/o": a single path segment
UrlOneSegment == <<"h", ":", "/", "/", "g", "/", "o">>
\* "h://g/o//r": the second path segment is empty
UrlEmptySegment == <<"h", ":", "/", "/", "g", "/", "o", "/", "/", "r">>
\* "h://g/o?/r": the second segment belongs to the query
UrlQuery == <<"h", ":", "/", "/", "g", "/", "o", "?", "/", "r">>

SampleUrls == {UrlR, UrlR2, UrlQ, UrlRel, UrlOneSegment, UrlEmptySegment, UrlQuery, <<>>}

SampleRows ==
    {<<>>, <<M1>>}
    \cup {<<m, u>> : m \in {M1, M2Padded}, u \in SampleUrls}
    \cup {<<M1, u, Extra>> : u \in {UrlR, UrlOneSegment}}

RECURSIVE SeqsUpTo(_, _)
SeqsUpTo(S, n) ==
    IF n = 0 THEN {<<>>}
    ELSE LET shorter == SeqsUpTo(S, n - 1)
         IN shorter \cup {Append(q, x) : q \in {t \in shorter : Len(t) = n - 1}, x \in S}

\* catalogues walked by the full run
CatTwoModules == <<<<M1, UrlR>>, <<M2Padded, UrlR2>>>>
CatDuplicate == <<<<M1, UrlR>>, <<M1, UrlR>>>>
CatTwoRepos == <<<<M1, UrlR>>, <<M2Padded, UrlQ>>>>
CatMalformed == <<<<M1>>, <<M1, UrlOneSegment, Extra>>, <<M1, UrlRel, Extra>>>>
CatRejected == <<<<>>, <<M1, UrlQuery>>>>

Catalogues == {CatTwoModules, CatDuplicate, CatTwoRepos, CatMalformed, CatRejected}

ArgVersions == {<<v, n>> : v \in Majors, n \in 0..1}
EndVersions == {<<v, 0>> : v \in Majors}

(***************************************************************************)
(* File trees                                                              *)
(***************************************************************************)
ADDONS == <<"a", "d", "d", "o", "n", "s">>
ODOO == <<"o", "d", "o", "o">>
MIGRATIONS == <<"m", "i", "g", "r", "a", "t", "i", "o", "n", "s">>

Layouts == {"absent", "top", "top_migrations", "addons", "addons_migrations",
            "odoo_addons_migrations"}

\* the directories a module contributes to the tree of a repository
LayoutPaths(m, layout) ==
    CASE layout = "absent" -> {}
      [] layout = "top" -> {<<m>>}
      [] layout = "top_migrations" -> {<<m>>, <<m, MIGRATIONS>>}
      [] layout = "addons" -> {<<ADDONS>>, <<ADDONS, m>>}
      [] layout = "addons_migrations" ->
            {<<ADDONS>>, <<ADDONS, m>>, <<ADDONS, m, MIGRATIONS>>}
      [] layout = "odoo_addons_migrations" ->
            {<<ODOO>>, <<ODOO, ADDONS>>, <<ODOO, ADDONS, m>>,
             <<ODOO, ADDONS, m, MIGRATIONS>>}

\* the trees repo_dir may hold: no directory at all, or a directory with the
\* modules laid out in any combination
Trees(mods) ==
    {{}} \cup {{<<>>} \cup UNION {LayoutPaths(m, f[m]) : m \in mods} : f \in [mods -> Layouts]}

\* os.path.isdir(os.path.join(repo_dir, *p))
isdir(tr, p) == p \in tr

\* os.listdir restricted to directories
listdirs(tr, d) ==
    {p[Len(d) + 1] : p \in {q \in tr : Len(q) = Len(d) + 1 /\ SubSeq(q, 1, Len(d)) = d}}

ModuleNames(modules) == {modules[i][1] : i \in 1..Len(modules)}

search_dirs(v) ==
    IF v = "odoo" THEN {<<>>, <<ADDONS>>, <<ODOO, ADDONS>>} ELSE {<<>>}

\* log_repo_modules: (instalados, no_encontrados), as sets
log_repo_modules(v, tr, modules) ==
    LET modulos_en_repo ==
            UNION {IF isdir(tr, d)
                   THEN {name \in listdirs(tr, d) : name = <<>> \/ name[1] # "."}
                   ELSE {} : d \in search_dirs(v)}
        modulos_csv == ModuleNames(modules)
    IN [instalados |-> {m \in modulos_csv : m \in modulos_en_repo},
        no_encontrados |-> {m \in modulos_csv : m \notin modulos_en_repo}]

(***************************************************************************)
(* analyze_repos                                                           *)
(***************************************************************************)
\* branches = [f"{v}.0" for v in range(start_v, end_v + 1)]
Branches(a) ==
    LET start_v == a.start[1]
        end_v == a.end[1]
        n == IF end_v >= start_v THEN end_v - start_v + 1 ELSE 0
    IN [i \in 1..n |-> <<start_v + i - 1, 0>>]

\* resumen[repo] as created at the top of the repository loop; a module that
\* is not a key of a defaultdict maps to the empty list, sin_at is the history
\* of the calls of sin_migrations.add
EmptyAnalysis(modules) ==
    [con_migrations |-> [m \in ModuleNames(modules) |-> <<>>],
     sin_migrations |-> {},
     sin_at |-> {},
     errores |-> <<>>,
     no_encontrados |-> [m \in ModuleNames(modules) |-> <<>>],
     lineas |-> [m \in ModuleNames(modules) |-> 0]]

\* repo_url of the branch loop
repo_url(v, repo, modules) ==
    IF v = "odoo" THEN modules[1][2] ELSE <<"OCA", repo>>

RECURSIVE RepoNotFoundErrors(_, _, _)
RepoNotFoundErrors(errs, modules, branch) ==
    IF modules = <<>> THEN errs
    ELSE RepoNotFoundErrors(Append(errs, <<Head(modules)[1], branch>>), Tail(modules), branch)

\* only the first module entry gets an error record
RepoNotFoundFirstOnly(data, modules, branch) ==
    [data EXCEPT !.errores = Append(@, <<modules[1][1], branch>>)]

\* the error records of a negative existence probe
RepoNotFound(data, modules, branch) ==
    [data EXCEPT !.errores = RepoNotFoundErrors(@, modules, branch)]

RECURSIVE RepoNotFoundCsvErrors(_, _, _)
RepoNotFoundCsvErrors(errs, modules, url) ==
    IF modules = <<>> THEN errs
    ELSE RepoNotFoundCsvErrors(Append(errs, <<Head(modules)[3], <<Head(modules)[1], url>>>>),
                               Tail(modules), url)

\* a module missing from the tree is recorded and then classified as well
ClassifyFallThrough(data, module, branch, no_enc, tr) ==
    LET d == IF module \in no_enc
             THEN [data EXCEPT !.no_encontrados[module] = Append(@, branch)]
             ELSE data
    IN IF isdir(tr, <<module, MIGRATIONS>>)
       THEN [d EXCEPT !.con_migrations[module] = Append(@, branch)]
       ELSE [d EXCEPT !.sin_migrations = @ \cup {module},
                      !.sin_at = @ \cup {<<module, branch>>}]

\* the buckets after one iteration of the module loop
Classify(data, module, branch, no_enc, tr) ==
    IF module \in no_enc
    THEN [data EXCEPT !.no_encontrados[module] = Append(@, branch)]
    ELSE IF isdir(tr, <<module, MIGRATIONS>>)
         THEN [data EXCEPT !.con_migrations[module] = Append(@, branch)]
         ELSE [data EXCEPT !.sin_migrations = @ \cup {module},
                           !.sin_at = @ \cup {<<module, branch>>}]

\* save_migrations: the destinations written so far
save_migrations(done, repo, branch, module, tr) ==
    IF ~isdir(tr, <<module, MIGRATIONS>>) THEN done
    ELSE done \cup {<<repo, branch, module>>}

(***************************************************************************)
(* The process                                                             *)
(***************************************************************************)
\* the files generate_txt_reports and generate_csv_reports open with mode "w",
\* in the order they open them; the errors file only when csv_errors is not empty
ReportFiles(v, errs) ==
    (IF v = "odoo"
     THEN <<"analysis-full.txt", "analysis-migration.txt", "analysis-not-found.txt",
            "analysis-migration.csv", "analysis-not-found.csv", "analysis-by-report.csv">>
     ELSE <<"analysis-full.txt", "analysis-migration.txt", "analysis-not-found.txt",
            "analysis-full.csv", "analysis-migration.csv", "analysis-not-found.csv">>)
    \o (IF errs # <<>> THEN <<"errors.csv">> ELSE <<>>)

AllReportFiles ==
    {"analysis-full.txt", "analysis-migration.txt", "analysis-not-found.txt",
     "analysis-full.csv", "analysis-migration.csv", "analysis-not-found.csv",
     "analysis-by-report.csv", "errors.csv"}

Init ==
    /\ variant \in {"odoo", "oca"}
    /\ args \in [start : ArgVersions, end : EndVersions,
                 save_migrations : BOOLEAN, dry_run : BOOLEAN]
    /\ rows \in Catalogues
    /\ pc = "parse_csv"
    /\ line_num = 0
    /\ repos_data = <<>>
    /\ csv_errors = <<>>
    /\ branches = <<>>
    /\ resumen = <<>>
    /\ ri = 0
    /\ bi = 0
    /\ mi = 0
    /\ tree = {}
    /\ no_encontrados = {}
    /\ probes = <<>>
    /\ cloned = {}
    /\ captured = {}
    /\ reports = FALSE
    /\ interrupted = FALSE
    /\ exit_status = -1
    /\ files = [f \in AllReportFiles |-> "untouched"]
    /\ runs_left = 0
    /\ seen = {}
    /\ first = <<>>

\* the parser alone, on every catalogue of at most MaxRows sample rows
InitParse ==
    /\ variant \in {"odoo", "oca"}
    /\ args = [start |-> <<14, 0>>, end |-> <<14, 0>>,
               save_migrations |-> FALSE, dry_run |-> FALSE]
    /\ rows \in SeqsUpTo(SampleRows, MaxRows)
    /\ pc = "parse_csv"
    /\ line_num = 0
    /\ repos_data = <<>>
    /\ csv_errors = <<>>
    /\ branches = <<>>
    /\ resumen = <<>>
    /\ ri = 0
    /\ bi = 0
    /\ mi = 0
    /\ tree = {}
    /\ no_encontrados = {}
    /\ probes = <<>>
    /\ cloned = {}
    /\ captured = {}
    /\ reports = FALSE
    /\ interrupted = FALSE
    /\ exit_status = -1
    /\ files = [f \in AllReportFiles |-> "untouched"]
    /\ runs_left = 0
    /\ seen = {}
    /\ first = <<>>

\* a further run reads the snapshot the first run read: repo_exists may give
\* answer ans for (repo, branch) unless the first run got the other answer
SameAnswer(repo, branch, ans) ==
    IF first = <<>> THEN TRUE
    ELSE ~\E i \in 1..Len(first[1].probes) : first[1].probes[i] = <<repo, branch, ~ans>>

\* ... and the snapshot holds tree tr for (repo, branch) unless the first
\* run read another tree there
SameTree(repo, branch, tr) ==
    IF first = <<>> THEN TRUE
    ELSE \A x \in first[1].seen : (x[1] = repo /\ x[2] = branch) => x[3] = tr

\* the clone is made in a dry run as well
clone_always(a) == TRUE

\* "if not args.dry_run" in front of ensure_repo_cloned
clone_needed(a) == ~a.dry_run

\* the update of an existing clone removes the directory and restores nothing
ensure_repo_cloned_removes(exists, tr) ==
    IF exists THEN {} ELSE tr

\* ensure_repo_cloned: the tree of repo_dir afterwards, tr being the tree
\* git produces from the snapshot.  An existing repo_dir is fetched,
\* checked out and reset --hard, a missing one is cloned.
ensure_repo_cloned(exists, tr) ==
    IF exists THEN tr ELSE tr

\* repository, module entries and branch of the current iteration
Repo == repos_data[ri][1]
Modules == repos_data[ri][2]
Branch == branches[bi]

\* parse_csv: one iteration of the row loop
ParseRowStep ==
    /\ pc = "parse_csv"
    /\ line_num < Len(rows)
    /\ \E r \in {ParseRow(repos_data, csv_errors, line_num + 1, rows[line_num + 1])} :
          /\ repos_data' = r.repos_data
          /\ csv_errors' = r.csv_errors
    /\ line_num' = line_num + 1
    /\ UNCHANGED <<variant, args, rows, pc, branches, resumen, ri, bi, mi, tree,
                   no_encontrados, probes, cloned, captured, reports, interrupted,
                   exit_status,
                   files, runs_left, seen, first>>

\* parse_csv returns; analyze_repos computes branches and the empty resumen
AnalyzeStart ==
    /\ pc = "parse_csv"
    /\ line_num = Len(rows)
    /\ branches' = Branches(args)
    /\ resumen' = <<>>
    /\ ri' = 0
    /\ pc' = "repo"
    /\ UNCHANGED <<variant, args, rows, line_num, repos_data, csv_errors, bi, mi, tree,
                   no_encontrados, probes, cloned, captured, reports, interrupted,
                   exit_status,
                   files, runs_left, seen, first>>

\* the repository loop takes the next repository and creates resumen[repo]
NextRepo ==
    /\ pc = "repo"
    /\ ri < Len(repos_data)
    /\ ri' = ri + 1
    /\ resumen' = Append(resumen, EmptyAnalysis(repos_data[ri + 1][2]))
    /\ bi' = 0
    /\ pc' = "branch"
    /\ UNCHANGED <<variant, args, rows, line_num, repos_data, csv_errors, branches, mi,
                   tree, no_encontrados, probes, cloned, captured, reports, interrupted,
                   exit_status,
                   files, runs_left, seen, first>>

\* the repository loop is exhausted: return resumen
AnalyzeReturn ==
    /\ pc = "repo"
    /\ ri = Len(repos_data)
    /\ pc' = "reports"
    /\ UNCHANGED <<variant, args, rows, line_num, repos_data, csv_errors, branches,
                   resumen, ri, bi, mi, tree, no_encontrados, probes, cloned, captured,
                   reports, interrupted, exit_status,
                   files, runs_left, seen, first>>

\* the negative probe records its errors and the walk goes on with the next branch
ProbeNegativeNoBreak ==
    /\ pc = "branch"
    /\ bi < Len(branches)
    /\ SameAnswer(Repo, branches[bi + 1], FALSE)
    /\ bi' = bi + 1
    /\ probes' = Append(probes, <<Repo, branches[bi + 1], FALSE>>)
    /\ resumen' = [resumen EXCEPT ![ri] = RepoNotFound(@, Modules, branches[bi + 1])]
    /\ csv_errors' = IF variant = "odoo"
                     THEN RepoNotFoundCsvErrors(csv_errors, Modules,
                                                repo_url(variant, Repo, Modules))
                     ELSE csv_errors
    /\ pc' = "branch"
    /\ UNCHANGED <<variant, args, rows, line_num, repos_data, branches, ri, mi, tree,
                   no_encontrados, cloned, captured, reports, interrupted, exit_status,
                   files, runs_left, seen, first>>

\* the negative probe ends the walk of every repository, not only of this one
ProbeNegativeGlobalBreak ==
    /\ pc = "branch"
    /\ bi < Len(branches)
    /\ SameAnswer(Repo, branches[bi + 1], FALSE)
    /\ bi' = bi + 1
    /\ probes' = Append(probes, <<Repo, branches[bi + 1], FALSE>>)
    /\ resumen' = [resumen EXCEPT ![ri] = RepoNotFound(@, Modules, branches[bi + 1])]
    /\ csv_errors' = IF variant = "odoo"
                     THEN RepoNotFoundCsvErrors(csv_errors, Modules,
                                                repo_url(variant, Repo, Modules))
                     ELSE csv_errors
    /\ pc' = "reports"
    /\ UNCHANGED <<variant, args, rows, line_num, repos_data, branches, ri, mi, tree,
                   no_encontrados, cloned, captured, reports, interrupted, exit_status,
                   files, runs_left, seen, first>>

\* the failure of the probe escapes analyze_repos and ends the process
ProbeNegativeRaises ==
    /\ pc = "branch"
    /\ bi < Len(branches)
    /\ SameAnswer(Repo, branches[bi + 1], FALSE)
    /\ bi' = bi + 1
    /\ probes' = Append(probes, <<Repo, branches[bi + 1], FALSE>>)
    /\ exit_status' = 1
    /\ pc' = "done"
    /\ UNCHANGED <<variant, args, rows, line_num, repos_data, csv_errors, branches,
                   resumen, ri, mi, tree, no_encontrados, cloned, captured, reports,
                   interrupted,
                   files, runs_left, seen, first>>

\* the branch loop takes the next branch and repo_exists answers False (or
\* fails): one error per module entry, then break
ProbeNegative ==
    /\ pc = "branch"
    /\ bi < Len(branches)
    /\ SameAnswer(Repo, branches[bi + 1], FALSE)
    /\ bi' = bi + 1
    /\ probes' = Append(probes, <<Repo, branches[bi + 1], FALSE>>)
    /\ resumen' = [resumen EXCEPT ![ri] = RepoNotFound(@, Modules, branches[bi + 1])]
    /\ csv_errors' = IF variant = "odoo"
                     THEN RepoNotFoundCsvErrors(csv_errors, Modules,
                                                repo_url(variant, Repo, Modules))
                     ELSE csv_errors
    /\ pc' = "repo"
    /\ UNCHANGED <<variant, args, rows, line_num, repos_data, branches, ri, mi, tree,
                   no_encontrados, cloned, captured, reports, interrupted, exit_status,
                   files, runs_left, seen, first>>

\* the branch loop takes the next branch and repo_exists answers True
ProbePositive ==
    /\ pc = "branch"
    /\ bi < Len(branches)
    /\ SameAnswer(Repo, branches[bi + 1], TRUE)
    /\ bi' = bi + 1
    /\ probes' = Append(probes, <<Repo, branches[bi + 1], TRUE>>)
    /\ pc' = "clone"
    /\ UNCHANGED <<variant, args, rows, line_num, repos_data, csv_errors, branches,
                   resumen, ri, mi, tree, no_encontrados, cloned, captured, reports,
                   interrupted, exit_status,
                   files, runs_left, seen, first>>

\* the branch loop is exhausted
BranchesDone ==
    /\ pc = "branch"
    /\ bi = Len(branches)
    /\ pc' = "repo"
    /\ UNCHANGED <<variant, args, rows, line_num, repos_data, csv_errors, branches,
                   resumen, ri, bi, mi, tree, no_encontrados, probes, cloned, captured,
                   reports, interrupted, exit_status,
                   files, runs_left, seen, first>>

\* ensure_repo_cloned unless dry_run, then log_repo_modules.  git may leave
\* any tree behind (run_git_cmd ignores its result) and a dry run reads
\* whatever is on disk, so the tree found is any tree the snapshot allows.
Materialize ==
    /\ pc = "clone"
    /\ cloned' = IF clone_needed(args) THEN cloned \cup {<<Repo, Branch>>} ELSE cloned
    /\ \E tr \in {t \in Trees(ModuleNames(Modules)) : SameTree(Repo, Branch, t)} :
          LET found == IF clone_needed(args)
                       THEN ensure_repo_cloned(<<Repo, Branch>> \in cloned, tr)
                       ELSE tr
          IN /\ tree' = found
             /\ no_encontrados' = log_repo_modules(variant, found, Modules).no_encontrados
             /\ seen' = IF runs_left > 0 THEN seen \cup {<<Repo, Branch, tr>>} ELSE seen
    /\ mi' = 0
    /\ pc' = "module"
    /\ UNCHANGED <<variant, args, rows, line_num, repos_data, csv_errors, branches,
                   resumen, ri, bi, probes, captured, reports, interrupted, exit_status,
                   files, runs_left, first>>

\* one iteration of the module loop
ClassifyModule ==
    /\ pc = "module"
    /\ mi < Len(Modules)
    /\ mi' = mi + 1
    /\ LET module == Modules[mi + 1][1]
           line == Modules[mi + 1][3]
           withLine == IF variant = "odoo"
                       THEN [resumen[ri] EXCEPT !.lineas[module] = line]
                       ELSE resumen[ri]
       IN /\ resumen' = [resumen EXCEPT
                            ![ri] = Classify(withLine, module, Branch, no_encontrados, tree)]
          /\ captured' = IF /\ module \notin no_encontrados
                            /\ isdir(tree, <<module, MIGRATIONS>>)
                            /\ args.save_migrations
                         THEN save_migrations(captured, Repo, Branch, module, tree)
                         ELSE captured
    /\ UNCHANGED <<variant, args, rows, pc, line_num, repos_data, csv_errors, branches,
                   ri, bi, tree, no_encontrados, probes, cloned, reports, interrupted,
                   exit_status,
                   files, runs_left, seen, first>>

\* the module loop is exhausted; the tree and no_encontrados are not read
\* again before Materialize rewrites them
ModulesDone ==
    /\ pc = "module"
    /\ mi = Len(Modules)
    /\ tree' = {}
    /\ no_encontrados' = {}
    /\ pc' = "branch"
    /\ UNCHANGED <<variant, args, rows, line_num, repos_data, csv_errors, branches,
                   resumen, ri, bi, mi, probes, cloned, captured, reports, interrupted,
                   exit_status,
                   files, runs_left, seen, first>>

\* the report files still to be written, in order
PendingReports ==
    SelectSeq(ReportFiles(variant, csv_errors), LAMBDA f : files[f] # "complete")

\* open(path, "w"): the next report file is truncated and being written
OpenReport ==
    /\ pc = "reports"
    /\ PendingReports # <<>>
    /\ files[Head(PendingReports)] = "untouched"
    /\ files' = [files EXCEPT ![Head(PendingReports)] = "partial"]
    /\ UNCHANGED <<variant, args, rows, pc, line_num, repos_data, csv_errors, branches,
                   resumen, ri, bi, mi, tree, no_encontrados, probes, cloned, captured,
                   reports, interrupted, exit_status, runs_left, seen, first>>

\* the with block of the open report file ends: the file is written and closed
CloseReport ==
    /\ pc = "reports"
    /\ PendingReports # <<>>
    /\ files[Head(PendingReports)] = "partial"
    /\ files' = [files EXCEPT ![Head(PendingReports)] = "complete"]
    /\ UNCHANGED <<variant, args, rows, pc, line_num, repos_data, csv_errors, branches,
                   resumen, ri, bi, mi, tree, no_encontrados, probes, cloned, captured,
                   reports, interrupted, exit_status, runs_left, seen, first>>

\* generate_txt_reports and generate_csv_reports have written every file
GenerateReports ==
    /\ pc = "reports"
    /\ PendingReports = <<>>
    /\ reports' = TRUE
    /\ pc' = "summary"
    /\ UNCHANGED <<variant, args, rows, line_num, repos_data, csv_errors, branches,
                   resumen, ri, bi, mi, tree, no_encontrados, probes, cloned, captured,
                   interrupted, exit_status, files, runs_left, seen, first>>

\* the closing loop of main over csv_errors unpacks every row of two or more
\* fields into (module, repo_url): ValueError unless it has exactly two
SummaryRaises(v, errs) ==
    /\ v = "odoo"
    /\ \E i \in 1..Len(errs) : Len(errs[i][2]) >= 2 /\ Len(errs[i][2]) # 2

\* the rest of main, then the process exits: status 0, or 1 with a traceback
\* when an exception escapes
Finish ==
    /\ pc = "summary"
    /\ exit_status' = IF SummaryRaises(variant, csv_errors) THEN 1 ELSE 0
    /\ pc' = "done"
    /\ UNCHANGED <<variant, args, rows, line_num, repos_data, csv_errors, branches,
                   resumen, ri, bi, mi, tree, no_encontrados, probes, cloned, captured,
                   reports, interrupted,
                   files, runs_left, seen, first>>

\* KeyboardInterrupt anywhere in main: the handler logs and calls sys.exit(1)
Interrupt ==
    /\ pc # "done"
    /\ interrupted' = TRUE
    /\ exit_status' = 1
    /\ pc' = "done"
    /\ UNCHANGED <<variant, args, rows, line_num, repos_data, csv_errors, branches,
                   resumen, ri, bi, mi, tree, no_encontrados, probes, cloned, captured,
                   reports,
                   files, runs_left, seen, first>>

Next ==
    \/ ParseRowStep
    \/ AnalyzeStart
    \/ NextRepo
    \/ AnalyzeReturn
    \/ ProbeNegative
    \/ ProbePositive
    \/ BranchesDone
    \/ Materialize
    \/ ClassifyModule
    \/ ModulesDone
    \/ OpenReport
    \/ CloseReport
    \/ GenerateReports
    \/ Finish
    \/ Interrupt

Spec == Init /\ [][Next]_vars

\* the user runs the program again with the same command line, catalogue and
\* snapshot: a new process starts with fresh memory; the clones, the captured
\* migrations and the report files of the first run are still on disk
Restart ==
    /\ pc = "done"
    /\ ~interrupted
    /\ runs_left > 0
    /\ runs_left' = runs_left - 1
    /\ first' = <<[resumen |-> resumen, probes |-> probes, seen |-> seen]>>
    /\ pc' = "parse_csv"
    /\ line_num' = 0
    /\ repos_data' = <<>>
    /\ csv_errors' = <<>>
    /\ branches' = <<>>
    /\ resumen' = <<>>
    /\ ri' = 0
    /\ bi' = 0
    /\ mi' = 0
    /\ tree' = {}
    /\ no_encontrados' = {}
    /\ probes' = <<>>
    /\ reports' = FALSE
    /\ exit_status' = -1
    /\ files' = [f \in AllReportFiles |-> "untouched"]
    /\ UNCHANGED <<variant, args, rows, cloned, captured, interrupted, seen>>

\* catalogues of the two-run specification
TwiceCatalogues == {CatDuplicate, CatMalformed}

InitTwice ==
    /\ variant \in {"odoo", "oca"}
    /\ args \in [start : ArgVersions, end : EndVersions,
                 save_migrations : BOOLEAN, dry_run : BOOLEAN]
    /\ rows \in TwiceCatalogues
    /\ pc = "parse_csv"
    /\ line_num = 0
    /\ repos_data = <<>>
    /\ csv_errors = <<>>
    /\ branches = <<>>
    /\ resumen = <<>>
    /\ ri = 0
    /\ bi = 0
    /\ mi = 0
    /\ tree = {}
    /\ no_encontrados = {}
    /\ probes = <<>>
    /\ cloned = {}
    /\ captured = {}
    /\ reports = FALSE
    /\ interrupted = FALSE
    /\ exit_status = -1
    /\ files = [f \in AllReportFiles |-> "untouched"]
    /\ runs_left = 1
    /\ seen = {}
    /\ first = <<>>

NextTwice == Next \/ Restart

\* two runs of the program against one snapshot
SpecTwice == InitTwice /\ [][NextTwice]_vars

SpecParse == InitParse /\ [][ParseRowStep]_vars

TypeOK ==
    /\ pc \in {"parse_csv", "repo", "branch", "clone", "module", "reports", "summary", "done"}
    /\ exit_status \in {-1, 0, 1}

(***************************************************************************)
(* Vocabulary of the properties                                            *)
(***************************************************************************)
InSeq(x, q) == \E i \in 1..Len(q) : q[i] = x

NoDuplicates(q) == \A i, j \in 1..Len(q) : i # j => q[i] # q[j]

\* q lists versions in version-range order
Ascending(q) == \A i, j \in 1..Len(q) : i < j => q[i][1] < q[j][1]

Walked == 1..Len(resumen)
ModulesAt(r) == repos_data[r][2]
NamesAt(r) == ModuleNames(ModulesAt(r))
BranchIdx == 1..Len(branches)

\* the existence probe of repository r at branch b was made and answered ans
Probed(r, b, ans) == InSeq(<<repos_data[r][1], branches[b], ans>>, probes)

\* the four buckets of (repository r, module m, branch b)
InWith(r, m, b) == InSeq(branches[b], resumen[r].con_migrations[m])
InWithout(r, m, b) == <<m, branches[b]>> \in resumen[r].sin_at
InNotFound(r, m, b) == InSeq(branches[b], resumen[r].no_encontrados[m])
InErrors(r, m, b) == InSeq(<<m, branches[b]>>, resumen[r].errores)

BucketCount(r, m, b) ==
    (IF InWith(r, m, b) THEN 1 ELSE 0) + (IF InWithout(r, m, b) THEN 1 ELSE 0)
    + (IF InNotFound(r, m, b) THEN 1 ELSE 0) + (IF InErrors(r, m, b) THEN 1 ELSE 0)

\* the walk of repository r has processed module m at branch b: the probe was
\* made and, in the iteration still running, an entry of m is behind the
\* module loop
Processed(r, m, b) ==
    /\ Probed(r, b, TRUE) \/ Probed(r, b, FALSE)
    /\ ~(r = ri /\ b = bi /\ pc = "clone")
    /\ (r = ri /\ b = bi /\ pc = "module") =>
            \E k \in 1..mi : ModulesAt(r)[k][1] = m

\* the walk of repository r is over
WalkOver(r) ==
    \/ r < ri
    \/ r = ri /\ pc \in {"repo", "reports", "summary"}
    \/ r = ri /\ pc = "done" /\ ~interrupted

(***************************************************************************)
(* C1: during a repository's walk, every (module, version) the walk has    *)
(* processed is recorded in exactly one of withMigrations, withoutMigra-   *)
(* tions (added while processing that version), notFound and errors, and   *)
(* no (module, version) is ever recorded in two of them.                   *)
(***************************************************************************)
C1_ExactlyOneBucket ==
    \A r \in Walked : \A m \in NamesAt(r) : \A b \in BranchIdx :
        /\ BucketCount(r, m, b) <= 1
        /\ (~interrupted /\ Processed(r, m, b)) => BucketCount(r, m, b) = 1

\* a module found with migrations at one version and missing at another,
\* next to a module without migrations
C1_Witness ==
    /\ pc = "reports"
    /\ \E r \in Walked : \E m, n \in NamesAt(r) : \E b, c \in BranchIdx :
          /\ b # c
          /\ InWith(r, m, b) /\ InNotFound(r, m, c)
          /\ InWithout(r, n, b)

(***************************************************************************)
(* C2 as stated: after the walk, a confirmed (repository, version) has     *)
(* every module in exactly one of withMigrations and notFound; an unavail- *)
(* able one has it in neither and in errors.                               *)
(***************************************************************************)
C2_Original ==
    pc = "reports" =>
        \A r \in Walked : \A m \in NamesAt(r) : \A b \in BranchIdx :
            /\ Probed(r, b, TRUE) => (InWith(r, m, b) <=> ~InNotFound(r, m, b))
            /\ Probed(r, b, FALSE) =>
                    ~InWith(r, m, b) /\ ~InNotFound(r, m, b) /\ InErrors(r, m, b)

(***************************************************************************)
(* C2 amended: after the walk, a confirmed (repository, version) has every *)
(* module in exactly one of withMigrations, notFound and withoutMigrations *)
(* (added at that version), and not in errors; an unavailable one has it   *)
(* in none of the three and in errors.                                     *)
(***************************************************************************)
C2_Amended ==
    pc = "reports" =>
        \A r \in Walked : \A m \in NamesAt(r) : \A b \in BranchIdx :
            /\ Probed(r, b, TRUE) =>
                    /\ BucketCount(r, m, b) = 1
                    /\ ~InErrors(r, m, b)
            /\ Probed(r, b, FALSE) =>
                    /\ ~InWith(r, m, b) /\ ~InNotFound(r, m, b) /\ ~InWithout(r, m, b)
                    /\ InErrors(r, m, b)

\* a repository confirmed at one version, with a module without migrations
\* there, and unavailable at the next
C2_Witness ==
    /\ pc = "reports"
    /\ \E r \in Walked : \E m \in NamesAt(r) : \E b, c \in BranchIdx :
          /\ Probed(r, b, TRUE) /\ InWithout(r, m, b)
          /\ Probed(r, c, FALSE) /\ InErrors(r, m, c)
          /\ Len(ModulesAt(r)) = 2

(***************************************************************************)
(* C3: once the probe of a repository is negative at a version, no module  *)
(* of it is in withMigrations, withoutMigrations or notFound for that      *)
(* version or a later one, in any state of the run.                        *)
(***************************************************************************)
C3_ShortCircuit ==
    \A r \in Walked : \A b \in BranchIdx :
        Probed(r, b, FALSE) =>
            \A m \in NamesAt(r) : \A c \in BranchIdx :
                c >= b => ~InWith(r, m, c) /\ ~InWithout(r, m, c) /\ ~InNotFound(r, m, c)

\* a negative probe before the last version, after a classified version,
\* and the run went on to the reports
C3_Witness ==
    /\ pc = "reports"
    /\ \E r \in Walked : \E b \in BranchIdx :
          /\ b < Len(branches)
          /\ Probed(r, b, FALSE)
    /\ \E r \in Walked : \E m \in NamesAt(r) : \E b \in BranchIdx : InWith(r, m, b)

Analyzing ==
    \/ pc \in {"repo", "branch", "clone", "module", "reports", "summary"}
    \/ pc = "done" /\ ~interrupted

C5_InvalidRange ==
    Analyzing =>
        /\ args.start[1] > args.end[1] =>
                /\ resumen = <<>>
                /\ probes = <<>>
                /\ cloned = {}
                /\ ~reports
                /\ pc = "done" => exit_status # 0
        /\ args.start[1] <= args.end[1] =>
                /\ Len(branches) = args.end[1] - args.start[1] + 1
                /\ \A i \in 1..Len(branches) : branches[i] = <<args.start[1] + i - 1, 0>>

(***************************************************************************)
(* C6: withMigrations[module] and notFound[module] hold each version at    *)
(* most once and in version-range order, in every reachable state and for  *)
(* every accepted catalogue, duplicate rows included.                      *)
(***************************************************************************)
C6_OrderedSets ==
    \A r \in Walked : \A m \in NamesAt(r) :
        /\ NoDuplicates(resumen[r].con_migrations[m])
        /\ Ascending(resumen[r].con_migrations[m])
        /\ NoDuplicates(resumen[r].no_encontrados[m])
        /\ Ascending(resumen[r].no_encontrados[m])

(***************************************************************************)
(* C7: a migrations directory is captured for (repository, version,        *)
(* module) only if the capture flag is set, the run is not a dry run and   *)
(* the module was classified with migrations at that version.              *)
(***************************************************************************)
C7_CaptureGuard ==
    \A c \in captured :
        /\ args.save_migrations
        /\ ~args.dry_run
        /\ \E r \in Walked :
              /\ repos_data[r][1] = c[1]
              /\ c[3] \in NamesAt(r)
              /\ InSeq(c[2], resumen[r].con_migrations[c[3]])

(***************************************************************************)
(* C8: a catalogue module the tree listing reports present at a version    *)
(* (top level or secondary search root) is in withMigrations for that      *)
(* version if and only if a migrations directory exists under the path     *)
(* where the module is; otherwise it is added to withoutMigrations.        *)
(***************************************************************************)
\* the places of module m in the tree, among the search roots of the listing
OwnPaths(v, tr, m) == {d \o <<m>> : d \in {e \in search_dirs(v) : isdir(tr, e \o <<m>>)}}

HasOwnMigrations(v, tr, m) == \E p \in OwnPaths(v, tr, m) : isdir(tr, p \o <<MIGRATIONS>>)

C8_MigrationsUnderOwnPath ==
    pc = "module" =>
        \A k \in 1..mi :
            LET m == Modules[k][1] IN
            m \notin no_encontrados =>
                /\ InWith(ri, m, bi) <=> HasOwnMigrations(variant, tree, m)
                /\ ~HasOwnMigrations(variant, tree, m) => InWithout(ri, m, bi)

(***************************************************************************)
(* C9: parse_csv partitions the rows.  Every row consumed yields exactly   *)
(* one of: one entry (module, url, line) in the list of the repository     *)
(* named by the second path segment of the URL, or one error with that     *)
(* line number.  A row of fewer than two fields, or whose URL yields no    *)
(* identifier, yields the error and no entry; the rows after it are still  *)
(* parsed; the entries of a repository keep catalogue order, duplicates    *)
(* retained.                                                               *)
(***************************************************************************)
\* the entries of line n, as (repository index, position) pairs
EntriesOfLine(n) ==
    {<<r, k>> \in (1..Len(repos_data)) \X (1..MaxRows + 1) :
        k <= Len(repos_data[r][2]) /\ repos_data[r][2][k][3] = n}

ErrorsOfLine(n) == {i \in 1..Len(csv_errors) : csv_errors[i][1] = n}

Rejected(row) ==
    \/ Len(row) < 2
    \/ ~Truthy(extract_repo_name(Strip(row[2], Spaces)))

C9_ParserPartition ==
    /\ \A n \in 1..line_num :
          /\ Cardinality(EntriesOfLine(n)) + Cardinality(ErrorsOfLine(n)) = 1
          /\ Rejected(rows[n]) =>
                /\ EntriesOfLine(n) = {}
                /\ \A i \in ErrorsOfLine(n) : csv_errors[i] = <<n, rows[n]>>
          /\ ~Rejected(rows[n]) =>
                \A e \in EntriesOfLine(n) :
                    /\ repos_data[e[1]][1] = extract_repo_name(Strip(rows[n][2], Spaces))
                    /\ repos_data[e[1]][2][e[2]] =
                          <<Strip(rows[n][1], Spaces), Strip(rows[n][2], Spaces), n>>
    /\ \A r \in 1..Len(repos_data) :
          /\ repos_data[r][2] # <<>>
          /\ \A q \in 1..Len(repos_data) : repos_data[q][1] = repos_data[r][1] => q = r
          /\ \A i, j \in 1..Len(repos_data[r][2]) :
                i < j => repos_data[r][2][i][3] < repos_data[r][2][j][3]
    /\ \A i, j \in 1..Len(csv_errors) : i < j => csv_errors[i][1] < csv_errors[j][1]

\* a rejected row followed by an accepted one that repeats an earlier entry:
\* "h://x/p/r/" lands in repository r
C9_Witness ==
    /\ line_num = Len(rows)
    /\ Len(rows) >= 2
    /\ \E n \in 1..(Len(rows) - 1) : Rejected(rows[n]) /\ ~Rejected(rows[n + 1])
    /\ \E n \in 1..Len(rows) :
          /\ Len(rows[n]) >= 2
          /\ rows[n][2] = UrlR2
          /\ \E r \in 1..Len(repos_data) :
                repos_data[r][1] = <<"r">> /\ InSeq(<<M1, UrlR2, n>>, repos_data[r][2])

(***************************************************************************)
(* C10: the exit status is non-zero if and only if the run was             *)
(* interrupted by the user.                                                *)
(***************************************************************************)
C10_ExitStatus ==
    pc = "done" => (exit_status # 0 <=> interrupted)

(***************************************************************************)
(* C11: every run that is not interrupted eventually ends its walk over    *)
(* all repositories and writes its reports, whatever the probes, trees     *)
(* and catalogue rows were.                                                *)
(***************************************************************************)
\* the steps of the program itself; the process is sequential and blocks on
\* nothing but calls that return, so it takes its next step unless the user
\* interrupts it
Run ==
    \/ ParseRowStep
    \/ AnalyzeStart
    \/ NextRepo
    \/ AnalyzeReturn
    \/ ProbeNegative
    \/ ProbePositive
    \/ BranchesDone
    \/ Materialize
    \/ ClassifyModule
    \/ ModulesDone
    \/ OpenReport
    \/ CloseReport
    \/ GenerateReports
    \/ Finish

SpecLive == Init /\ [][Next]_vars /\ WF_vars(Run)

C11_ReportsEventually ==
    <>(interrupted \/ (reports /\ ri = Len(repos_data) /\ line_num = Len(rows)))

\* the reports were written although every repository was unavailable
C11_Witness ==
    /\ reports
    /\ ~interrupted
    /\ Len(resumen) >= 1
    /\ \A r \in Walked : Len(branches) >= 1 /\ Probed(r, 1, FALSE)

(***************************************************************************)
(* C12: an interrupt aborts the run only at a safe point between version   *)
(* iterations and leaves nothing partial: when the interrupted run exits,  *)
(* every report file is untouched or completely written, and no version    *)
(* is left with only some of its modules classified and then rendered.     *)
(***************************************************************************)
\* the process is not inside the body of a version iteration
BetweenVersions == pc \notin {"clone", "module"}

C12_CleanInterrupt ==
    [][(interrupted' /\ ~interrupted) =>
            /\ BetweenVersions
            /\ \A f \in AllReportFiles : files'[f] \in {"untouched", "complete"}]_vars

ProbeRepo(i) == KeyIndex(repos_data, probes[i][1])

\* number of probes of the same repository before the i-th probe
EarlierProbes(i) == Cardinality({j \in 1..(i - 1) : probes[j][1] = probes[i][1]})

\* the probes go through the repositories in catalogue order and, inside a
\* repository, through the range from its first version without a gap
ProbesInOrder ==
    \A i \in 1..Len(probes) :
        /\ ProbeRepo(i) >= 1
        /\ EarlierProbes(i) < Len(branches)
        /\ probes[i][2] = branches[EarlierProbes(i) + 1]
        /\ \A j \in 1..(i - 1) : ProbeRepo(j) <= ProbeRepo(i)

\* after the walk every repository of the catalogue has an analysis and was
\* probed at the first version of the range
AllWalked ==
    pc = "reports" =>
        /\ Len(resumen) = Len(repos_data)
        /\ \A r \in Walked : Len(branches) >= 1 => (Probed(r, 1, TRUE) \/ Probed(r, 1, FALSE))

\* a step changes the analysis of the repository being walked and no other;
\* a new analysis starts empty; a negative probe hands over to the
\* repository loop
OnlyOwnAnalysis ==
    /\ Len(resumen') >= Len(resumen)
    /\ \A r \in Walked : r # ri' => resumen'[r] = resumen[r]
    /\ Len(resumen') > Len(resumen) =>
            /\ Len(resumen') = Len(resumen) + 1
            /\ ri' = Len(resumen')
            /\ bi' = 0
            /\ resumen'[ri'] = EmptyAnalysis(repos_data[ri'][2])
    /\ (Len(probes') > Len(probes) /\ ~probes'[Len(probes')][3]) =>
            /\ pc' = "repo"
            /\ ri' = ri

C14_PerRepository ==
    [](ProbesInOrder /\ AllWalked) /\ [][OnlyOwnAnalysis]_vars

\* the first repository was unavailable at the first of several versions and
\* the second was walked through the range and classified
C14_Witness ==
    /\ pc = "reports"
    /\ Len(branches) >= 2
    /\ Len(resumen) = 2
    /\ Probed(1, 1, FALSE)
    /\ Probed(2, 1, TRUE) /\ Probed(2, 2, TRUE)
    /\ \E m \in NamesAt(2) : InWith(2, m, 1) /\ InNotFound(2, m, 2)
    /\ \A m \in NamesAt(1) : \A b \in BranchIdx : BucketCount(1, m, b) = (IF b = 1 THEN 1 ELSE 0)

(***************************************************************************)
(* C15: for a repository and a version, one existence probe is made and it *)
(* precedes the materialization, the listing, the migrations check and the *)
(* capture for that pair; materialization happens only after a positive    *)
(* probe and only when dry-run is off; after the first negative probe of a *)
(* repository nothing more is probed, materialized, listed or captured     *)
(* for it.                                                                 *)
(***************************************************************************)
PositivelyProbed(repo, branch) == InSeq(<<repo, branch, TRUE>>, probes)

\* at most one probe per (repository, version), and a negative probe is the
\* last probe of its repository
ProbedOnce ==
    \A i, j \in 1..Len(probes) :
        i < j =>
            /\ ~(probes[i][1] = probes[j][1] /\ probes[i][2] = probes[j][2])
            /\ ~probes[i][3] => probes[i][1] # probes[j][1]

\* whatever was materialized, listed, classified or captured had its
\* positive probe
ProbedBefore ==
    /\ \A c \in cloned : PositivelyProbed(c[1], c[2]) /\ ~args.dry_run
    /\ \A c \in captured : PositivelyProbed(c[1], c[2])
    /\ pc \in {"clone", "module"} =>
            /\ probes # <<>>
            /\ probes[Len(probes)] = <<Repo, Branch, TRUE>>
    /\ (pc = "module" /\ ~args.dry_run) => <<Repo, Branch>> \in cloned
    /\ \A r \in Walked : \A m \in NamesAt(r) : \A b \in BranchIdx :
            (InWith(r, m, b) \/ InWithout(r, m, b) \/ InNotFound(r, m, b)) =>
                Probed(r, b, TRUE)

\* a step that materializes, lists, classifies or captures finds the
\* positive probe of its (repository, version) already made
ProbeFirst ==
    /\ \A c \in cloned' \ cloned : PositivelyProbed(c[1], c[2])
    /\ \A c \in captured' \ captured : PositivelyProbed(c[1], c[2])
    /\ (tree' # tree /\ tree' # {}) => PositivelyProbed(Repo, Branch)
    /\ (resumen' # resumen /\ Len(probes') = Len(probes) /\ Len(resumen') = Len(resumen)) =>
            PositivelyProbed(Repo, Branch)

C15_ProbeOrdering ==
    [](ProbedOnce /\ ProbedBefore) /\ [][ProbeFirst]_vars

\* a dry run: a version confirmed and classified without a clone, then a
\* negative probe, and the run reached the reports
C15_Witness ==
    /\ pc = "reports"
    /\ args.dry_run
    /\ cloned = {}
    /\ \E r \in Walked : \E m \in NamesAt(r) :
          /\ Len(branches) >= 2
          /\ Probed(r, 1, TRUE) /\ InWith(r, m, 1)
          /\ Probed(r, 2, FALSE) /\ InErrors(r, m, 2)

====
